---- MODULE Spec2Model ----
(***************************************************************************)
(* Model of mangadex_downloader/tracker.py: the DownloadTracker ledger,    *)
(* its write-behind persistence through a QueueWorker, and the             *)
(* load/validation of the backing JSON document.                           *)
(***************************************************************************)
EXTENDS Integers, Sequences, FiniteSets, TLC

VARIABLES
    disabled,   \* config.no_track, as read by DownloadTracker.disabled
    cpc,        \* position of the caller thread
    heap,       \* the dict objects that have been bound to self.data, by identity
    cur,        \* index in heap of the object self.data refers to (0: no tracker yet)
    queue,      \* pending jobs of self.queue, oldest first
    wstate,     \* state of the worker thread of self.queue
    wjob,       \* the job the worker is executing: its ticket and the text it dumped
    file,       \* content of self.file on disk
    doc0,       \* content of self.file when the tracker was constructed
    io,         \* kinds of file-system calls made so far
    nsub,       \* number of jobs submitted so far
    ndone,      \* ticket of the last job the worker completed
    ops,        \* number of API calls made by the caller after construction
    last,       \* the last API call, its name argument and the exception it raised
    twin,       \* self.data of a tracker with tracking enabled and no backing
                \* document, driven by the same calls (kept for disabled runs)
    recreated,  \* whether recreate() has been called
    raced,      \* the threads whose write of self.file, still open, overlapped
                \* a write by the other thread
    prev,       \* self.data of the tracker that was last dropped, if any
    restarts    \* number of trackers constructed after the first one

vars == <<disabled, cpc, heap, cur, queue, wstate, wjob, file, doc0, io,
          nsub, ndone, ops, last, twin, recreated, raced, prev, restarts>>

----------------------------------------------------------------------------
(* Bounds *)

MaxOps == 3          \* API calls per run, after construction
MaxDocFiles == 2     \* entries of "files" in the initial document
MaxLoadOps == 1      \* API calls per run that starts from a document with entries
MaxRestarts == 2     \* trackers constructed on the directory after the first one
MaxLiveFiles == 1    \* entries of the initial document in the runs checked for progress
MaxResumeOps == 2    \* API calls, before a closing shutdown(), of the runs that are resumed

----------------------------------------------------------------------------
(* Values *)

NULL == "null"                       \* Python None / JSON null in a scalar field
None == << >>                        \* None in a list-valued field
Some(l) == << l >>                   \* a list in a list-valued field
IsNone(o) == Len(o) = 0
ListOf(o) == o[1]

Names == {"a", "b"}
FileId == NULL
FileHash == NULL
\* image file names, as sequences of characters
Img2 == <<"2", ".", "p">>
Img10 == <<"1", "0", ".", "p">>
ImgBad == <<"p">>
ImgNames == {Img2, Img10, ImgBad}
ImgHash == "h"
ImgHash2 == "h2"
ImgChapter == "c"
\* the (img_name, hash) pairs add_image_info is called with
ImgArgs == (ImgNames \X {ImgHash}) \cup {<<Img2, ImgHash2>>}
ChapterNames == {"n1", "n2"}
ChapterIds == {"c1", "c2"}

Digits == {"0", "1", "2", "3", "4", "5", "6", "7", "8", "9"}

DigitValue(c) ==
    CASE c = "0" -> 0 [] c = "1" -> 1 [] c = "2" -> 2 [] c = "3" -> 3
      [] c = "4" -> 4 [] c = "5" -> 5 [] c = "6" -> 6 [] c = "7" -> 7
      [] c = "8" -> 8 [] c = "9" -> 9

----------------------------------------------------------------------------
(* Entity types: objects carry their class, plain mappings do not *)

\* _ImageInfo.__init__: KeyError when a key is missing
ImageKeys == {"name", "hash", "chapter_id"}
_ImageInfo_ok(data) == ImageKeys \subseteq DOMAIN data
_ImageInfo(data) ==
    [cls |-> "_ImageInfo", name |-> data.name, hash |-> data.hash,
     chapter_id |-> data.chapter_id]
_ImageInfo_data(o) ==
    [name |-> o.name, hash |-> o.hash, chapter_id |-> o.chapter_id]

\* _ChapterInfo.__init__
ChapterKeys == {"name", "id"}
_ChapterInfo_ok(data) == ChapterKeys \subseteq DOMAIN data
_ChapterInfo(data) == [cls |-> "_ChapterInfo", name |-> data.name, id |-> data.id]
_ChapterInfo_data(o) == [name |-> o.name, id |-> o.id]

\* _FileInfo.__init__
FileKeys == {"name", "id", "hash", "completed", "images", "chapters"}
_FileInfo_ok(data) ==
    /\ FileKeys \subseteq DOMAIN data
    /\ IsNone(data.images) \/
       \A i \in 1..Len(ListOf(data.images)) : _ImageInfo_ok(ListOf(data.images)[i])
    /\ IsNone(data.chapters) \/
       \A i \in 1..Len(ListOf(data.chapters)) : _ChapterInfo_ok(ListOf(data.chapters)[i])
_FileInfo(data) ==
    [cls |-> "_FileInfo", name |-> data.name, id |-> data.id, hash |-> data.hash,
     completed |-> data.completed,
     images |-> IF IsNone(data.images) THEN None
                ELSE Some([i \in 1..Len(ListOf(data.images)) |->
                              _ImageInfo(ListOf(data.images)[i])]),
     chapters |-> IF IsNone(data.chapters) THEN None
                  ELSE Some([i \in 1..Len(ListOf(data.chapters)) |->
                                _ChapterInfo(ListOf(data.chapters)[i])])]
\* a serialization that writes every record as not completed
_FileInfo_data_NotCompleted(o) ==
    [name |-> o.name, id |-> o.id, hash |-> o.hash, completed |-> FALSE,
     images |-> IF IsNone(o.images) THEN None
                ELSE Some([i \in 1..Len(ListOf(o.images)) |->
                              _ImageInfo_data(ListOf(o.images)[i])]),
     chapters |-> IF IsNone(o.chapters) THEN None
                  ELSE Some([i \in 1..Len(ListOf(o.chapters)) |->
                                _ChapterInfo_data(ListOf(o.chapters)[i])])]

\* _FileInfo.data as the encoder emits it: nested objects through their own data
_FileInfo_data(o) ==
    [name |-> o.name, id |-> o.id, hash |-> o.hash, completed |-> o.completed,
     images |-> IF IsNone(o.images) THEN None
                ELSE Some([i \in 1..Len(ListOf(o.images)) |->
                              _ImageInfo_data(ListOf(o.images)[i])]),
     chapters |-> IF IsNone(o.chapters) THEN None
                  ELSE Some([i \in 1..Len(ListOf(o.chapters)) |->
                                _ChapterInfo_data(ListOf(o.chapters)[i])])]

\* _FileInfo.__eq__: equality of the data mappings, field by field
_FileInfo_eq(x, y) == _FileInfo_data(x) = _FileInfo_data(y)
\* _ImageInfo.__eq__
_ImageInfo_eq(x, y) == _ImageInfo_data(x) = _ImageInfo_data(y)
\* _ChapterInfo.__eq__ against a bare id string
_ChapterInfo_eq_str(x, s) == x.id = s

----------------------------------------------------------------------------
(* Python list helpers *)

\* index of the first element of l satisfying eq(l[i], x), 0 if none
IndexOfFile(l, x) ==
    IF \E i \in 1..Len(l) : _FileInfo_eq(l[i], x)
    THEN CHOOSE i \in 1..Len(l) :
            /\ _FileInfo_eq(l[i], x)
            /\ \A j \in 1..(i - 1) : ~_FileInfo_eq(l[j], x)
    ELSE 0
IndexOfImage(l, x) ==
    IF \E i \in 1..Len(l) : _ImageInfo_eq(l[i], x)
    THEN CHOOSE i \in 1..Len(l) :
            /\ _ImageInfo_eq(l[i], x)
            /\ \A j \in 1..(i - 1) : ~_ImageInfo_eq(l[j], x)
    ELSE 0
\* l without its i-th element
DeleteAt(l, i) == [j \in 1..(Len(l) - 1) |-> IF j < i THEN l[j] ELSE l[j + 1]]

----------------------------------------------------------------------------
(* The ledger root held in self.data *)

\* _write_new: default_data, the empty skeleton
default_data == [kind |-> "dict", comment |-> TRUE, has_files |-> TRUE, files |-> << >>]
\* __init__: self.data = {}
EmptyDict == [kind |-> "dict", comment |-> FALSE, has_files |-> FALSE, files |-> << >>]
\* the value False returned by _check_data
FalseValue == [kind |-> "false", comment |-> FALSE, has_files |-> FALSE, files |-> << >>]

\* the exception raised by self.data["files"], "none" if the subscript succeeds
FilesErr(data) ==
    IF data.kind = "false" THEN "TypeError"
    ELSE IF ~data.has_files THEN "KeyError"
    ELSE "none"

\* outcome of an API call on self.data: the root afterwards, the exception
\* raised, and whether self._write(self.data) was reached
Outcome(data, err, write) == [data |-> data, err |-> err, write |-> write]

\* DownloadTracker.get: index of the last record named name, 0 for None
get_index(files, name) ==
    IF \E i \in 1..Len(files) : files[i].name = name
    THEN CHOOSE i \in 1..Len(files) :
            /\ files[i].name = name
            /\ \A j \in (i + 1)..Len(files) : files[j].name # name
    ELSE 0

\* DownloadTracker.get as the caller sees it
get(data, name) ==
    IF FilesErr(data) # "none" THEN [err |-> FilesErr(data), value |-> << >>]
    ELSE [err |-> "none",
          value |-> IF get_index(data.files, name) = 0 THEN << >>
                    ELSE << data.files[get_index(data.files, name)] >>]

\* DownloadTracker.empty as the caller sees it
empty(data) ==
    IF FilesErr(data) # "none" THEN [err |-> FilesErr(data), value |-> FALSE]
    ELSE [err |-> "none", value |-> Len(data.files) = 0]

\* the loop of remove_file_info_from_name: a lazy filter over the list that
\* files.remove(fi) shrinks while the list iterator keeps its index
RECURSIVE RemoveLoop(_, _, _)
RemoveLoop(files, i, name) ==
    IF i > Len(files) THEN files
    ELSE IF files[i].name = name
         THEN RemoveLoop(DeleteAt(files, IndexOfFile(files, files[i])), i + 1, name)
         ELSE RemoveLoop(files, i + 1, name)

remove_file_info_from_name(data, name) ==
    IF FilesErr(data) # "none" THEN Outcome(data, FilesErr(data), FALSE)
    ELSE Outcome([data EXCEPT !.files = RemoveLoop(@, 1, name)], "none", FALSE)

add_file_info(data, name, null_images, null_chapters) ==
    IF FilesErr(data) # "none" THEN Outcome(data, FilesErr(data), FALSE)
    ELSE LET file_info == _FileInfo(
                 [name |-> name, id |-> FileId, hash |-> FileHash,
                  completed |-> FALSE,
                  images |-> IF null_images THEN None ELSE Some(<< >>),
                  chapters |-> IF null_chapters THEN None ELSE Some(<< >>)])
         IN Outcome([data EXCEPT !.files = Append(@, file_info)], "none", TRUE)

\* get_page_image: re.search(r"(?P<page>[0-9]{1,})\..{1,}", name)
RECURSIVE RunEnd(_, _)
RunEnd(s, i) ==
    IF i <= Len(s) /\ s[i] \in Digits THEN RunEnd(s, i + 1) ELSE i
MatchAt(s, i) ==
    /\ s[i] \in Digits
    /\ RunEnd(s, i) + 1 <= Len(s)
    /\ s[RunEnd(s, i)] = "."
HasPage(s) == \E i \in 1..Len(s) : MatchAt(s, i)
MatchStart(s) ==
    CHOOSE i \in 1..Len(s) : MatchAt(s, i) /\ \A j \in 1..(i - 1) : ~MatchAt(s, j)
RECURSIVE ToInt(_, _, _, _)
ToInt(s, i, e, acc) ==
    IF i >= e THEN acc ELSE ToInt(s, i + 1, e, 10 * acc + DigitValue(s[i]))
get_page_image(s) == ToInt(s, MatchStart(s), RunEnd(s, MatchStart(s)), 0)

\* sorted(images, key=get_page_image): stable, ascending
RECURSIVE InsertByPage(_, _)
InsertByPage(sorted, x) ==
    IF Len(sorted) = 0 THEN << x >>
    ELSE IF get_page_image(sorted[Len(sorted)].name) <= get_page_image(x.name)
         THEN Append(sorted, x)
         ELSE Append(InsertByPage(SubSeq(sorted, 1, Len(sorted) - 1), x),
                     sorted[Len(sorted)])
RECURSIVE SortedByPage(_)
SortedByPage(l) ==
    IF Len(l) = 0 THEN << >>
    ELSE InsertByPage(SortedByPage(SubSeq(l, 1, Len(l) - 1)), l[Len(l)])

\* add_image_info without the removal of an equal image
add_image_info_keep(data, name, img_name, hash, chap_id) ==
    IF FilesErr(data) # "none" THEN Outcome(data, FilesErr(data), FALSE)
    ELSE LET idx == get_index(data.files, name)
             im_info == _ImageInfo([name |-> img_name, hash |-> hash,
                                    chapter_id |-> chap_id])
         IN IF idx = 0 THEN Outcome(data, "AttributeError", FALSE)
            ELSE IF IsNone(data.files[idx].images)
            THEN Outcome(data, "AttributeError", FALSE)
            ELSE LET appended == Append(ListOf(data.files[idx].images), im_info)
                 IN IF \E i \in 1..Len(appended) : ~HasPage(appended[i].name)
                    THEN Outcome([data EXCEPT !.files[idx].images = Some(appended)],
                                 "Exception", FALSE)
                    ELSE Outcome([data EXCEPT !.files[idx].images =
                                                 Some(SortedByPage(appended))],
                                 "none", TRUE)

add_image_info(data, name, img_name, hash, chap_id) ==
    IF FilesErr(data) # "none" THEN Outcome(data, FilesErr(data), FALSE)
    ELSE LET idx == get_index(data.files, name)
             im_info == _ImageInfo([name |-> img_name, hash |-> hash,
                                    chapter_id |-> chap_id])
         IN IF idx = 0 THEN Outcome(data, "AttributeError", FALSE)
            ELSE IF IsNone(data.files[idx].images)
            THEN Outcome(data, "AttributeError", FALSE)
            ELSE LET images == ListOf(data.files[idx].images)
                     at == IndexOfImage(images, im_info)
                     removed == IF at = 0 THEN images ELSE DeleteAt(images, at)
                     appended == Append(removed, im_info)
                 IN IF \E i \in 1..Len(appended) : ~HasPage(appended[i].name)
                    THEN Outcome([data EXCEPT !.files[idx].images = Some(appended)],
                                 "Exception", FALSE)
                    ELSE Outcome([data EXCEPT !.files[idx].images =
                                                 Some(SortedByPage(appended))],
                                 "none", TRUE)

\* add_chapter_info testing membership of the whole record, not of the id
add_chapter_info_by_record(data, name, chapter_name, chapter_id) ==
    IF FilesErr(data) # "none" THEN Outcome(data, FilesErr(data), FALSE)
    ELSE LET idx == get_index(data.files, name)
         IN IF idx = 0 THEN Outcome(data, "AttributeError", FALSE)
            ELSE IF IsNone(data.files[idx].chapters)
            THEN Outcome(data, "TypeError", FALSE)
            ELSE LET chapters == ListOf(data.files[idx].chapters)
                     ch_info == _ChapterInfo([name |-> chapter_name, id |-> chapter_id])
                 IN IF \E i \in 1..Len(chapters) : chapters[i] = ch_info
                    THEN Outcome(data, "none", FALSE)
                    ELSE Outcome([data EXCEPT !.files[idx].chapters =
                                                 Some(Append(chapters, ch_info))],
                                 "none", TRUE)

add_chapter_info(data, name, chapter_name, chapter_id) ==
    IF FilesErr(data) # "none" THEN Outcome(data, FilesErr(data), FALSE)
    ELSE LET idx == get_index(data.files, name)
         IN IF idx = 0 THEN Outcome(data, "AttributeError", FALSE)
            ELSE IF IsNone(data.files[idx].chapters)
            THEN Outcome(data, "TypeError", FALSE)
            ELSE LET chapters == ListOf(data.files[idx].chapters)
                     ch_info == _ChapterInfo([name |-> chapter_name, id |-> chapter_id])
                 IN IF \E i \in 1..Len(chapters) :
                           _ChapterInfo_eq_str(chapters[i], chapter_id)
                    THEN Outcome(data, "none", FALSE)
                    ELSE Outcome([data EXCEPT !.files[idx].chapters =
                                                 Some(Append(chapters, ch_info))],
                                 "none", TRUE)

\* toggle_complete that skips a missing record and still calls _write
toggle_complete_lenient(data, name, is_complete) ==
    IF FilesErr(data) # "none" THEN Outcome(data, FilesErr(data), FALSE)
    ELSE LET idx == get_index(data.files, name)
         IN IF idx = 0 THEN Outcome(data, "none", TRUE)
            ELSE Outcome([data EXCEPT !.files[idx].completed = is_complete],
                         "none", TRUE)

toggle_complete(data, name, is_complete) ==
    IF FilesErr(data) # "none" THEN Outcome(data, FilesErr(data), FALSE)
    ELSE LET idx == get_index(data.files, name)
         IN IF idx = 0 THEN Outcome(data, "AttributeError", FALSE)
            ELSE Outcome([data EXCEPT !.files[idx].completed = is_complete],
                         "none", TRUE)

\* the effect of recreate() on self.data
recreate_data(dis, data) == IF dis THEN data ELSE default_data

----------------------------------------------------------------------------
(* The backing document and its encoding *)

AbsentDoc == [kind |-> "absent", comment |-> FALSE, has_files |-> FALSE, files |-> << >>]
\* text that is not JSON
GarbageDoc == [kind |-> "garbage", comment |-> FALSE, has_files |-> FALSE, files |-> << >>]
\* the JSON text "false"
FalseDoc == [kind |-> "false", comment |-> FALSE, has_files |-> FALSE, files |-> << >>]
\* a JSON object without "files"
NoFilesDoc == [kind |-> "dict", comment |-> TRUE, has_files |-> FALSE, files |-> << >>]

\* json_lib.dumps(data, default=DownloadTrackerJSONEncoder): every _BasicInfo
\* object is replaced by its data mapping
dumps(data) ==
    IF data.kind = "false" THEN FalseDoc
    ELSE [kind |-> "dict", comment |-> data.comment, has_files |-> data.has_files,
          files |-> [i \in 1..Len(data.files) |-> _FileInfo_data(data.files[i])]]

\* json_lib.loads raises JSONDecodeError
loads_fails(text) == text.kind = "garbage"

\* the loop of _check_data over entries that all construct: an entry equal to
\* one already kept is skipped
RECURSIVE CheckLoop(_, _, _)
CheckLoop(raw, i, new_files) ==
    IF i > Len(raw) THEN new_files
    ELSE LET fi == _FileInfo(raw[i])
         IN IF \E j \in 1..Len(new_files) : _FileInfo_eq(fi, new_files[j])
            THEN CheckLoop(raw, i + 1, new_files)
            ELSE CheckLoop(raw, i + 1, Append(new_files, fi))

\* which way _check_data(data) leaves, for the parsed value data
check_branch(data) ==
    IF data.kind # "dict" THEN "TypeError"
    ELSE IF ~data.has_files THEN "False"
    ELSE IF \E i \in 1..Len(data.files) : ~_FileInfo_ok(data.files[i]) THEN "KeyError"
    ELSE "data"

\* _check_data(data) when every entry constructs
_check_data(data) == [data EXCEPT !.files = CheckLoop(data.files, 1, << >>)]

----------------------------------------------------------------------------
(* Initial documents *)

RawA0 == [name |-> "a", id |-> NULL, hash |-> NULL, completed |-> FALSE,
          images |-> Some(<< >>), chapters |-> Some(<< >>)]
RawA1 == [RawA0 EXCEPT !.completed = TRUE]
RawB == [name |-> "b", id |-> NULL, hash |-> NULL, completed |-> FALSE,
         images |-> Some(<< [name |-> Img10, hash |-> ImgHash, chapter_id |-> ImgChapter],
                            [name |-> Img2, hash |-> ImgHash, chapter_id |-> ImgChapter] >>),
         chapters |-> None]
\* an entry without "id"
RawNoId == [name |-> "a", hash |-> NULL, completed |-> FALSE,
            images |-> Some(<< >>), chapters |-> Some(<< >>)]
RawEntries == {RawA0, RawA1, RawB, RawNoId}

RECURSIVE SeqsUpTo(_, _)
SeqsUpTo(S, n) ==
    IF n = 0 THEN {<< >>}
    ELSE LET shorter == SeqsUpTo(S, n - 1)
         IN shorter \cup {Append(q, x) : q \in shorter, x \in S}

FilesDocs ==
    {[kind |-> "dict", comment |-> TRUE, has_files |-> TRUE, files |-> f] :
        f \in SeqsUpTo(RawEntries, MaxDocFiles)}
Docs == {AbsentDoc, GarbageDoc, FalseDoc, NoFilesDoc} \cup FilesDocs

----------------------------------------------------------------------------
(* State *)

NoJob == [ticket |-> 0, text |-> AbsentDoc]
NoCall == [op |-> "none", name |-> NULL, err |-> "none"]
Returned(op, name, err) == [op |-> op, name |-> name, err |-> err]

NoPrev == [valid |-> FALSE, shut |-> FALSE, data |-> default_data]

\* calls the caller may make in this run; the calls are made on the first
\* tracker of the directory, a later one is constructed and read
Budget ==
    IF restarts > 0 THEN 0
    ELSE IF doc0.kind = "dict" /\ Len(doc0.files) > 0 THEN MaxLoadOps ELSE MaxOps

Init ==
    /\ disabled \in BOOLEAN
    /\ cpc = "new"
    /\ heap = << >>
    /\ cur = 0
    /\ queue = << >>
    /\ wstate = "notstarted"
    /\ wjob = NoJob
    /\ file \in Docs
    /\ doc0 = file
    /\ io = {}
    /\ nsub = 0
    /\ ndone = 0
    /\ ops = 0
    /\ last = NoCall
    /\ twin = default_data
    /\ recreated = FALSE
    /\ raced = {}
    /\ prev = NoPrev
    /\ restarts = 0

----------------------------------------------------------------------------
(* Persistence *)

\* QueueWorker.submit(job, blocking=False): the job joins the end of the queue
QueueWorker_submit(ref) ==
    /\ queue' = Append(queue, [data |-> ref, ticket |-> nsub + 1])
    /\ nsub' = nsub + 1

\* _write without the test of self.disabled
_write_always(ref) == QueueWorker_submit(ref)

\* _write(data): the job keeps a reference to the object data
_write(ref) ==
    IF disabled THEN UNCHANGED <<queue, nsub>>
    ELSE QueueWorker_submit(ref)

\* _write_new: writes the skeleton unless tracking is disabled
_write_new ==
    IF disabled THEN UNCHANGED <<file, io>>
    ELSE /\ file' = dumps(default_data)
         /\ io' = io \cup {"write"}

\* a file opened for writing and not written yet: no JSON text
EmptyText == GarbageDoc

\* what self.file may hold when thread who closes its write of text: the text,
\* or, when the write overlapped a write of the other thread, also what the
\* other thread left or a mix of both that is no JSON text
WriteOutcomes(who, text) ==
    IF who \in raced THEN {text, file, GarbageDoc} ELSE {text}

\* QueueWorker: the worker thread takes the job at the front of the queue
QueueWorker_next == Head(queue)

\* the worker takes the oldest job and evaluates json_lib.dumps(data) on the
\* object the job refers to
WorkerTake ==
    /\ wstate = "idle"
    /\ queue # << >>
    /\ wjob' = [ticket |-> QueueWorker_next.ticket,
                text |-> dumps(heap[QueueWorker_next.data])]
    /\ queue' = Tail(queue)
    /\ wstate' = "busy"
    /\ UNCHANGED <<disabled, cpc, heap, cur, file, doc0, io, nsub, ndone, ops, last,
                   twin, recreated, raced, prev, restarts>>

\* self.func_write(text) opens self.file for writing, which truncates it
WorkerOpen ==
    /\ wstate = "busy"
    /\ wstate' = "writing"
    /\ file' = EmptyText
    /\ io' = io \cup {"write"}
    /\ raced' = IF cpc = "in_recreate" THEN {"caller", "worker"} ELSE raced
    /\ UNCHANGED <<disabled, cpc, heap, cur, queue, wjob, doc0, nsub, ndone, ops, last,
                   twin, recreated, prev, restarts>>

\* self.func_write(text) writes the text and closes the file; the job is done
WorkerWrite ==
    /\ wstate = "writing"
    /\ file' \in WriteOutcomes("worker", wjob.text)
    /\ raced' = raced \ {"worker"}
    /\ ndone' = wjob.ticket
    /\ wjob' = NoJob
    /\ wstate' = "idle"
    /\ UNCHANGED <<disabled, cpc, heap, cur, queue, doc0, io, nsub, ops, last, twin,
                   recreated, prev, restarts>>

----------------------------------------------------------------------------
(* Construction *)

\* __init__ with config.no_track set, the result of _write_new() dropped
InitDisabled_NoSeed ==
    /\ disabled
    /\ heap' = << EmptyDict >>
    /\ cur' = 1
    /\ _write_new
    /\ cpc' = "ready"
    /\ UNCHANGED <<queue, nsub, wstate>>

\* __init__ with config.no_track set
InitDisabled ==
    /\ disabled
    /\ heap' = << default_data >>
    /\ cur' = 1
    /\ _write_new
    /\ cpc' = "ready"
    /\ UNCHANGED <<queue, nsub, wstate>>

\* _load: the file does not exist
LoadAbsent ==
    /\ ~disabled
    /\ file.kind = "absent"
    /\ wstate' = "idle"
    /\ file' = dumps(default_data)
    /\ io' = io \cup {"exists", "write"}
    /\ heap' = << default_data >>
    /\ cur' = 1
    /\ cpc' = "ready"
    /\ UNCHANGED <<queue, nsub>>

\* _load: JSONDecodeError; self._write_new() and return, self.data stays {}
LoadUnparseable ==
    /\ ~disabled
    /\ file.kind # "absent"
    /\ loads_fails(file)
    /\ wstate' = "idle"
    /\ file' = dumps(default_data)
    /\ io' = io \cup {"exists", "read", "write"}
    /\ heap' = << EmptyDict >>
    /\ cur' = 1
    /\ cpc' = "ready"
    /\ UNCHANGED <<queue, nsub>>

\* _check_data: data["files"] on a value that is not a mapping raises TypeError,
\* which nothing catches; the constructor fails after starting the worker
LoadNotDict ==
    /\ ~disabled
    /\ file.kind # "absent"
    /\ ~loads_fails(file)
    /\ check_branch(file) = "TypeError"
    /\ wstate' = "idle"
    /\ io' = io \cup {"exists", "read"}
    /\ cpc' = "crashed"
    /\ UNCHANGED <<heap, cur, file, queue, nsub>>

\* _check_data returns False: _write(False), self.data = False
LoadNoFiles ==
    /\ ~disabled
    /\ file.kind # "absent"
    /\ ~loads_fails(file)
    /\ check_branch(file) = "False"
    /\ wstate' = "idle"
    /\ io' = io \cup {"exists", "read"}
    /\ heap' = << FalseValue >>
    /\ cur' = 1
    /\ _write(1)
    /\ cpc' = "ready"
    /\ UNCHANGED file

\* delete_file(p) for a path p that is not a regular file: it returns or raises
delete_file_outcomes == {"returns", "raises"}

\* _check_data meets an entry that does not construct: delete_file(self.path),
\* the directory, then return self._write_new()
LoadMalformed ==
    /\ ~disabled
    /\ file.kind # "absent"
    /\ ~loads_fails(file)
    /\ check_branch(file) = "KeyError"
    /\ wstate' = "idle"
    /\ \E outcome \in delete_file_outcomes :
          \/ /\ outcome = "returns"
             /\ file' = dumps(default_data)
             /\ io' = io \cup {"exists", "read", "delete_path", "write"}
             /\ heap' = << default_data >>
             /\ cur' = 1
             /\ _write(1)
             /\ cpc' = "ready"
          \/ /\ outcome = "raises"
             /\ io' = io \cup {"exists", "read", "delete_path"}
             /\ cpc' = "crashed"
             /\ UNCHANGED <<heap, cur, file, queue, nsub>>

\* _check_data returns the checked data: _write(data), self.data = data
LoadChecked ==
    /\ ~disabled
    /\ file.kind # "absent"
    /\ ~loads_fails(file)
    /\ check_branch(file) = "data"
    /\ wstate' = "idle"
    /\ io' = io \cup {"exists", "read"}
    /\ heap' = << _check_data(file) >>
    /\ cur' = 1
    /\ _write(1)
    /\ cpc' = "ready"
    /\ UNCHANGED file

\* DownloadTracker.__init__
Initialize ==
    /\ cpc = "new"
    /\ \/ InitDisabled
       \/ LoadAbsent
       \/ LoadUnparseable
       \/ LoadNotDict
       \/ LoadNoFiles
       \/ LoadMalformed
       \/ LoadChecked
    /\ UNCHANGED <<disabled, wjob, doc0, ndone, ops, last, twin, recreated, raced,
                   prev, restarts>>

----------------------------------------------------------------------------
(* API calls *)

\* a call that works on self.data in place, with outcome out and the outcome
\* mirror of the same call on the twin
Call(op, name, out, mirror) ==
    /\ cpc = "ready"
    /\ ops < Budget
    /\ heap' = [heap EXCEPT ![cur] = out.data]
    /\ IF out.write THEN _write(cur) ELSE UNCHANGED <<queue, nsub>>
    /\ last' = Returned(op, name, out.err)
    /\ ops' = ops + 1
    /\ twin' = IF disabled THEN mirror.data ELSE twin
    /\ UNCHANGED <<disabled, cpc, cur, wstate, wjob, file, doc0, io, ndone, recreated,
                   raced, prev, restarts>>

AddFile ==
    \E name \in Names, nulls \in BOOLEAN :
        Call("add_file_info", name,
             add_file_info(heap[cur], name, nulls, nulls),
             add_file_info(twin, name, nulls, nulls))

AddImage ==
    \E name \in Names, img \in ImgArgs :
        Call("add_image_info", name,
             add_image_info(heap[cur], name, img[1], img[2], ImgChapter),
             add_image_info(twin, name, img[1], img[2], ImgChapter))

AddChapter ==
    \E name \in Names, chapter_name \in ChapterNames, chapter_id \in ChapterIds :
        Call("add_chapter_info", name,
             add_chapter_info(heap[cur], name, chapter_name, chapter_id),
             add_chapter_info(twin, name, chapter_name, chapter_id))

ToggleComplete ==
    \E name \in Names, is_complete \in BOOLEAN :
        Call("toggle_complete", name,
             toggle_complete(heap[cur], name, is_complete),
             toggle_complete(twin, name, is_complete))

RemoveByName ==
    \E name \in Names :
        Call("remove_file_info_from_name", name,
             remove_file_info_from_name(heap[cur], name),
             remove_file_info_from_name(twin, name))

\* a recreate() that also drops the jobs still waiting in the queue
Recreate_Cancel ==
    /\ cpc = "ready"
    /\ ops < Budget
    /\ ops' = ops + 1
    /\ recreated' = TRUE
    /\ twin' = IF disabled THEN recreate_data(FALSE, twin) ELSE twin
    /\ queue' = << >>
    /\ IF disabled
       THEN /\ last' = Returned("recreate", NULL, "none")
            /\ UNCHANGED <<cpc, file, io, raced>>
       ELSE /\ cpc' = "in_recreate"
            /\ file' = EmptyText
            /\ io' = io \cup {"delete", "write"}
            /\ raced' = IF wstate = "writing" THEN {"caller", "worker"} ELSE raced
            /\ UNCHANGED last
    /\ UNCHANGED <<disabled, heap, cur, wstate, wjob, doc0, nsub, ndone, prev,
                   restarts>>

\* recreate(): returns at once when disabled; else delete_file(self.file) and
\* _write_new() opens self.file for writing, on the caller's thread
Recreate ==
    /\ cpc = "ready"
    /\ ops < Budget
    /\ ops' = ops + 1
    /\ recreated' = TRUE
    /\ twin' = IF disabled THEN recreate_data(FALSE, twin) ELSE twin
    /\ IF disabled
       THEN /\ last' = Returned("recreate", NULL, "none")
            /\ UNCHANGED <<cpc, file, io, raced>>
       ELSE /\ cpc' = "in_recreate"
            /\ file' = EmptyText
            /\ io' = io \cup {"delete", "write"}
            /\ raced' = IF wstate = "writing" THEN {"caller", "worker"} ELSE raced
            /\ UNCHANGED last
    /\ UNCHANGED <<disabled, heap, cur, queue, wstate, wjob, doc0, nsub, ndone, prev,
                   restarts>>

\* recreate(): _write_new() writes the skeleton and closes the file, and
\* self.data is bound to the dict it returns
RecreateReturn ==
    /\ cpc = "in_recreate"
    /\ file' \in WriteOutcomes("caller", dumps(default_data))
    /\ raced' = raced \ {"caller"}
    /\ heap' = Append(heap, recreate_data(disabled, heap[cur]))
    /\ cur' = Len(heap) + 1
    /\ last' = Returned("recreate", NULL, "none")
    /\ cpc' = "ready"
    /\ UNCHANGED <<disabled, queue, wstate, wjob, doc0, io, nsub, ndone, ops, twin,
                   recreated, prev, restarts>>

\* shutdown() returning without self.queue.shutdown()
ShutdownCall_NoDrain ==
    /\ cpc = "ready"
    /\ ops < Budget
    /\ ops' = ops + 1
    /\ last' = Returned("shutdown", NULL, "none")
    /\ UNCHANGED <<disabled, cpc, heap, cur, queue, wstate, wjob, file, doc0, io, nsub,
                   ndone, twin, recreated, raced, prev, restarts>>

\* a shutdown() that submits one more write of self.data before it waits
ShutdownCall_Flush ==
    /\ cpc = "ready"
    /\ ops < Budget
    /\ ops' = ops + 1
    /\ _write(cur)
    /\ IF disabled
       THEN /\ last' = Returned("shutdown", NULL, "none")
            /\ UNCHANGED cpc
       ELSE /\ cpc' = "in_shutdown"
            /\ UNCHANGED last
    /\ UNCHANGED <<disabled, heap, cur, wstate, wjob, file, doc0, io,
                   ndone, twin, recreated, raced, prev, restarts>>

\* shutdown(): returns at once when disabled, else enters self.queue.shutdown()
ShutdownCall ==
    /\ cpc = "ready"
    /\ ops < Budget
    /\ ops' = ops + 1
    /\ IF disabled
       THEN /\ last' = Returned("shutdown", NULL, "none")
            /\ UNCHANGED cpc
       ELSE /\ cpc' = "in_shutdown"
            /\ UNCHANGED last
    /\ UNCHANGED <<disabled, heap, cur, queue, wstate, wjob, file, doc0, io, nsub,
                   ndone, twin, recreated, raced, prev, restarts>>

\* QueueWorker.shutdown() returns once the queue is empty and the worker has
\* stopped
QueueWorker_shutdown ==
    /\ queue = << >>
    /\ wstate \in {"idle", "stopped"}
    /\ wstate' = "stopped"

ShutdownReturn ==
    /\ cpc = "in_shutdown"
    /\ QueueWorker_shutdown
    /\ cpc' = "ready"
    /\ last' = Returned("shutdown", NULL, "none")
    /\ UNCHANGED <<disabled, heap, cur, queue, wjob, file, doc0, io, nsub, ndone,
                   ops, twin, recreated, raced, prev, restarts>>

\* shutdown() with tracking enabled, as the call that ends a run which has
\* made all its other calls
ClosingShutdownCall ==
    /\ cpc = "ready"
    /\ ~disabled
    /\ ops >= Budget
    /\ ops <= MaxResumeOps
    /\ wstate # "stopped"
    /\ cpc' = "in_shutdown"
    /\ ops' = ops + 1
    /\ UNCHANGED <<disabled, heap, cur, queue, wstate, wjob, file, doc0, io, nsub,
                   ndone, last, twin, recreated, raced, prev, restarts>>

\* the tracker is dropped with nothing pending and DownloadTracker(fmt, path)
\* is constructed again on the same directory
Restart ==
    /\ cpc = "ready"
    /\ ~disabled
    /\ queue = << >>
    /\ wstate \in {"idle", "stopped"}
    /\ restarts < MaxRestarts
    /\ ops <= MaxResumeOps + 1
    /\ restarts' = restarts + 1
    /\ prev' = [valid |-> TRUE, shut |-> wstate = "stopped", data |-> heap[cur]]
    /\ cpc' = "new"
    /\ heap' = << >>
    /\ cur' = 0
    /\ wstate' = "notstarted"
    /\ doc0' = file
    /\ io' = {}
    /\ nsub' = 0
    /\ ndone' = 0
    /\ last' = NoCall
    /\ recreated' = FALSE
    /\ UNCHANGED <<disabled, queue, wjob, file, ops, twin, raced>>

Next ==
    \/ Initialize
    \/ AddFile
    \/ AddImage
    \/ AddChapter
    \/ ToggleComplete
    \/ RemoveByName
    \/ Recreate
    \/ RecreateReturn
    \/ ShutdownCall
    \/ ShutdownReturn
    \/ WorkerTake
    \/ WorkerOpen
    \/ WorkerWrite

Spec == Init /\ [][Next]_vars

\* the worker thread runs whenever it has a step to take; the runs start
\* from a document that is there, with at most MaxLiveFiles entries and, when
\* it has "files", with one entry at least
InitLive ==
    /\ Init
    /\ file.kind # "absent"
    /\ Len(file.files) <= MaxLiveFiles
    /\ file.has_files => Len(file.files) > 0

SpecFair ==
    /\ InitLive
    /\ [][Next]_vars
    /\ WF_vars(WorkerTake)
    /\ WF_vars(WorkerOpen)
    /\ WF_vars(WorkerWrite)

\* runs in which trackers follow one another on the same directory
NextResume == Next \/ ClosingShutdownCall \/ Restart

SpecResume == Init /\ [][NextResume]_vars

----------------------------------------------------------------------------
(* Properties of construction and load *)

\* the constructor has returned and no call has been made yet
Loaded == ~disabled /\ cpc = "ready" /\ ops = 0
\* no job is pending or running
Drained == queue = << >> /\ wstate \notin {"busy", "writing"}
\* a parseable document with "files" whose entries all construct
AllComplete(doc) ==
    /\ doc.kind = "dict"
    /\ doc.has_files
    /\ \A i \in 1..Len(doc.files) : _FileInfo_ok(doc.files[i])
DistinctNames(files) ==
    \A i, j \in 1..Len(files) : i # j => files[i].name # files[j].name
\* the entries of raw that no earlier entry shares its name with, as records
RECURSIVE FirstByName(_, _)
FirstByName(raw, i) ==
    IF i > Len(raw) THEN << >>
    ELSE IF \E j \in 1..(i - 1) : raw[j].name = raw[i].name
         THEN FirstByName(raw, i + 1)
         ELSE << _FileInfo(raw[i]) >> \o FirstByName(raw, i + 1)

\* C1: after the load of a parseable document whose entries are all complete,
\* no two records of the ledger share a name, the ledger holds exactly the
\* first entry of each name, and the document written back has no two
\* entries of one name either.
C1_DedupByName ==
    (Loaded /\ AllComplete(doc0)) =>
        /\ DistinctNames(heap[cur].files)
        /\ heap[cur].files = FirstByName(doc0.files, 1)
        /\ (Drained /\ ndone = nsub) => DistinctNames(file.files)

\* C3: after the load of a document that does not parse, the ledger in memory
\* is the empty skeleton (empty is true, get finds nothing), the document on
\* disk is the empty skeleton, and a following add_file_info succeeds.
C3_ParseFailureResets ==
    (~disabled /\ doc0.kind = "garbage" /\ cpc = "ready") =>
        /\ ops = 0 =>
              /\ heap[cur] = default_data
              /\ empty(heap[cur]) = [err |-> "none", value |-> TRUE]
              /\ \A n \in Names : get(heap[cur], n) = [err |-> "none", value |-> << >>]
              /\ file = dumps(default_data)
        /\ (ops = 1 /\ last.op = "add_file_info") => last.err = "none"

\* C4: after the load of a document that parses but has no "files", the
\* ledger in memory is a root with files = [], and what the job scheduled by
\* the load writes is a root with "files".
C4_NoFilesResets ==
    (Loaded /\ doc0 = NoFilesDoc) =>
        /\ heap[cur].kind = "dict"
        /\ heap[cur].has_files
        /\ heap[cur].files = << >>
        /\ wstate = "busy" => (wjob.text.kind = "dict" /\ wjob.text.has_files)
        /\ Drained => (file.kind = "dict" /\ file.has_files)

\* C5: after the load of a document with an entry that lacks a required
\* field, the backing file has been deleted, the ledger in memory has
\* files = [] and the document on disk is the empty skeleton.
C5_MalformedEntryRecreates ==
    (Loaded /\ doc0.kind = "dict" /\ doc0.has_files /\ ~AllComplete(doc0)) =>
        /\ "delete" \in io
        /\ heap[cur] = default_data
        /\ Drained => file = dumps(default_data)

----------------------------------------------------------------------------
(* Properties of the calls and of persistence *)

\* a step in which the caller's call op returns
Returns(op) ==
    /\ last'.op = op
    /\ cpc' = "ready"
    /\ ops' = ops + 1 \/ cpc \in {"in_shutdown", "in_recreate"}

\* the records of files whose name is not name, in order
Others(files, name) == SelectSeq(files, LAMBDA fi : fi.name # name)

\* C2: when remove_file_info_from_name(n) returns, no record named n is left
\* (get(n) finds nothing) and the records of other names are all there, in
\* their order.
C2_RemoveRemovesAll ==
    [][(Returns("remove_file_info_from_name") /\ last'.err = "none") =>
          /\ get(heap'[cur'], last'.name) = [err |-> "none", value |-> << >>]
          /\ heap'[cur'].files = Others(heap[cur].files, last'.name)]_vars

\* C6: the text a persistence job writes is the serialization of the root
\* self.data holds when the job executes.
C6_JobWritesCurrentRoot ==
    [][(wstate = "idle" /\ wstate' = "busy") => wjob'.text = dumps(heap[cur])]_vars

\* C7: with tracking enabled, when shutdown() returns the queue is empty, the
\* worker has stopped and every job submitted has been completed; the worker
\* takes jobs in the order of their submission, each after the previous one
\* is done.
C7_ShutdownDrains ==
    [][/\ (~disabled /\ Returns("shutdown")) =>
             /\ queue' = << >>
             /\ wstate' = "stopped"
             /\ wjob' = NoJob
             /\ ndone' = nsub'
       /\ (wstate' = "busy" /\ wstate # "busy") =>
             /\ wjob'.ticket = ndone + 1
             /\ \A i \in 1..Len(queue') : queue'[i].ticket = wjob'.ticket + i]_vars

\* shutdown() has returned after the worker completed several jobs
C7_Witness ==
    /\ ~disabled
    /\ cpc = "ready"
    /\ last.op = "shutdown"
    /\ wstate = "stopped"
    /\ ndone >= 2

\* C8: with tracking enabled, every call that returns having changed the
\* ledger in memory has submitted a persistence job or written the ledger
\* itself (checked for calls made while no job is pending, so that no earlier
\* job is left to carry the change to disk).
C8_MutationPersists ==
    [][(/\ ~disabled
        /\ cpc = "ready"
        /\ Drained
        /\ ops' = ops + 1
        /\ last'.err = "none"
        /\ heap'[cur'] # heap[cur]) =>
          \/ nsub' = nsub + 1
          \/ "write" \in io' /\ file' = dumps(heap'[cur'])]_vars

\* C9: with tracking disabled, no file-system call is made on the backing
\* file, which stays as it was, the worker is never started and no job is
\* ever submitted.
C9_DisabledNoIO ==
    disabled =>
        /\ io = {}
        /\ file = doc0
        /\ wstate = "notstarted"
        /\ wjob = NoJob
        /\ queue = << >>
        /\ nsub = 0

\* a disabled tracker over an existing document, after calls that changed the
\* ledger, a recreate() and a shutdown()
C9_Witness ==
    /\ disabled
    /\ doc0.kind = "dict"
    /\ recreated
    /\ last.op = "shutdown"
    /\ Len(heap[cur].files) > 0

\* what the caller can observe of a root: get(n) for every name, and empty
Observed(data) == [n \in Names |-> get(data, n)]
SameAPI(d1, d2) == Observed(d1) = Observed(d2) /\ empty(d1) = empty(d2)

\* C10: after any sequence of calls, get(n) and empty give the same results on
\* a disabled tracker as on an enabled tracker built without a backing
\* document.
C10_DisabledSameAPI ==
    (disabled /\ cpc = "ready") => SameAPI(heap[cur], twin)

\* C10, amended: after any sequence of calls without recreate(), get(n) and
\* empty give the same results on a disabled tracker as on an enabled tracker
\* built without a backing document.
C10_DisabledSameAPI_NoRecreate ==
    (disabled /\ cpc = "ready" /\ ~recreated) => SameAPI(heap[cur], twin)

\* a disabled tracker holding a record with an image, no recreate() so far
C10_Witness ==
    /\ disabled
    /\ cpc = "ready"
    /\ ~recreated
    /\ ops >= 2
    /\ \E i \in 1..Len(heap[cur].files) :
          /\ ~IsNone(heap[cur].files[i].images)
          /\ Len(ListOf(heap[cur].files[i].images)) > 0
----------------------------------------------------------------------------
(* Properties of the image and chapter sequences *)

\* the records of the ledger, << >> when self.data has no "files"
Files == IF cur > 0 /\ FilesErr(heap[cur]) = "none" THEN heap[cur].files ELSE << >>
\* the image list of record fi, << >> when it is None
ImagesOf(fi) == IF IsNone(fi.images) THEN << >> ELSE ListOf(fi.images)
ChaptersOf(fi) == IF IsNone(fi.chapters) THEN << >> ELSE ListOf(fi.chapters)

\* C11: in every state of the ledger, the page numbers parsed from the image
\* file names of a record do not decrease along its image sequence.
C11_ImagesOrdered ==
    \A f \in 1..Len(Files) :
        \A i, j \in 1..Len(ImagesOf(Files[f])) :
            (/\ i < j
             /\ HasPage(ImagesOf(Files[f])[i].name)
             /\ HasPage(ImagesOf(Files[f])[j].name)) =>
                get_page_image(ImagesOf(Files[f])[i].name)
                    <= get_page_image(ImagesOf(Files[f])[j].name)
\* the initial document gave the ledger no record: every record was made by
\* add_file_info
MadeByAddFile ==
    doc0.kind \in {"absent", "garbage"} \/ (doc0.kind = "dict" /\ Len(doc0.files) = 0)

\* C12: in a record made by add_file_info, after any add_image_info calls, no
\* two images are equal in (name, hash, chapter_id): adding an image equal to
\* one already held leaves one occurrence of it.
C12_ImagesUnique ==
    MadeByAddFile =>
        \A f \in 1..Len(Files) :
            \A i, j \in 1..Len(ImagesOf(Files[f])) :
                i # j => ~_ImageInfo_eq(ImagesOf(Files[f])[i], ImagesOf(Files[f])[j])

\* a record made by add_file_info holds two images of one name that differ in
\* hash, after an add_image_info call
C12_Witness ==
    /\ MadeByAddFile
    /\ last.op = "add_image_info"
    /\ last.err = "none"
    /\ \E f \in 1..Len(Files) :
          \E i, j \in 1..Len(ImagesOf(Files[f])) :
              /\ i # j
              /\ ImagesOf(Files[f])[i].name = ImagesOf(Files[f])[j].name
\* the chapter list of the record get(name) finds in root data
ChaptersAt(data, name) == ChaptersOf(data.files[get_index(data.files, name)])

\* C13: an add_chapter_info call that returns either found the id among the
\* record's chapters, and then left the ledger as it was and submitted no job,
\* or appended one chapter whose id was not there before; and in a record made
\* by add_file_info the chapter ids are pairwise distinct.
C13_ChapterNoOp ==
    [][/\ (Returns("add_chapter_info") /\ last'.err = "none") =>
             \/ /\ heap' = heap
                /\ queue' = queue
                /\ nsub' = nsub
             \/ LET old == ChaptersAt(heap[cur], last'.name)
                    new == ChaptersAt(heap'[cur'], last'.name)
                IN /\ new = Append(old, new[Len(new)])
                   /\ \A i \in 1..Len(old) : old[i].id # new[Len(new)].id
                   /\ ~disabled => nsub' = nsub + 1
       /\ MadeByAddFile' =>
             \A f \in 1..Len(Files') :
                 \A i, j \in 1..Len(ChaptersOf(Files'[f])) :
                     i # j => ChaptersOf(Files'[f])[i].id # ChaptersOf(Files'[f])[j].id]_vars

\* an add_chapter_info call has returned without a job on a record that
\* already holds a chapter: two jobs for three calls
C13_Witness ==
    /\ MadeByAddFile
    /\ ~disabled
    /\ last.op = "add_chapter_info"
    /\ last.err = "none"
    /\ ops = 3
    /\ nsub = 2
    /\ Len(Files) = 1
    /\ Len(ChaptersOf(Files[1])) = 1
----------------------------------------------------------------------------
(* Properties of failing calls *)

\* C17: an add_image_info, add_chapter_info or toggle_complete call whose name
\* matches no record raises, leaves the ledger in memory as it was and submits
\* no job.
C17_MissingNameFails ==
    [][(/\ \/ Returns("add_image_info")
           \/ Returns("add_chapter_info")
           \/ Returns("toggle_complete")
        /\ get(heap[cur], last'.name).value = << >>) =>
          /\ last'.err # "none"
          /\ heap' = heap
          /\ cur' = cur
          /\ queue' = queue
          /\ nsub' = nsub]_vars

\* a call on a name without record has raised while the ledger holds a record
\* of another name
C17_Witness ==
    /\ last.op \in {"add_image_info", "add_chapter_info", "toggle_complete"}
    /\ last.err = "AttributeError"
    /\ Len(Files) > 0
    /\ get(heap[cur], last.name).value = << >>

\* C18: when add_image_info raises because a file name yields no page number,
\* the record's image sequence is as it was before the call and no job has
\* been submitted.
C18_PageErrorLeavesImages ==
    [][(Returns("add_image_info") /\ last'.err = "Exception") =>
          /\ heap' = heap
          /\ nsub' = nsub]_vars

-----------------------------------------------------------------------------
(* Concurrent writes of the backing document *)

\* C19: writes of the backing document never overlap: the write of the
\* skeleton that recreate() makes on the caller's thread is never in progress
\* while a job's write on the worker thread is in progress.
C19_WritesNeverOverlap == ~(cpc = "in_recreate" /\ wstate = "writing")

-----------------------------------------------------------------------------
(* Trackers that follow one another on the same directory *)

\* the tracker has been constructed after another one and no call was made yet
Resumed == prev.valid /\ cpc = "ready" /\ last = NoCall
\* a root whose "files" is a list, with no two records of the same name
WellFormedRoot(data) == FilesErr(data) = "none" /\ DistinctNames(data.files)
\* the document found is the serialization of the previous tracker's root
Persisted == doc0 = dumps(prev.data)

\* C14: when a well-formed, duplicate-free root R has been persisted, the load
\* of that document yields a root equal to R, the job the load submits writes
\* the same document again, and so the next load yields R once more.
C14_RoundTrip ==
    (Resumed /\ WellFormedRoot(prev.data) /\ Persisted) =>
        /\ heap[cur] = prev.data
        /\ wstate \in {"busy", "writing"} => wjob.text = doc0
        /\ (Drained /\ raced = {}) => file = doc0

\* a second load in a row of a persisted root with a completed record that
\* has images
C14_Witness ==
    /\ Resumed /\ WellFormedRoot(prev.data) /\ Persisted
    /\ restarts = 2
    /\ Drained
    /\ \E i \in 1..Len(Files) : Files[i].completed /\ ImagesOf(Files[i]) # << >>

\* C20: a ledger built by add_file_info, add_image_info, add_chapter_info and
\* toggle_complete, several add_file_info of one name included, is resumed
\* consistently: after shutdown() has returned and a new tracker is constructed
\* on the directory, get(n) is for every name n structurally equal to what
\* get(n) was before the shutdown.
C20_ResumeConsistent ==
    (Resumed /\ prev.shut /\ Persisted /\ FilesErr(prev.data) = "none") =>
        \A n \in Names : get(heap[cur], n).value = get(prev.data, n).value

-----------------------------------------------------------------------------
(* Repeated shutdown *)

\* C15: a shutdown() called after an earlier shutdown() has returned, with no
\* call in between, returns without error and changes neither the ledger in
\* memory nor the backing document. With tracking enabled the worker is then
\* stopped and the queue empty: entering the call changes nothing, the call
\* can return, and its return changes nothing. With tracking disabled the call
\* returns in the step that makes it.
C15_SecondShutdown ==
    /\ [](( ~disabled /\ cpc = "in_shutdown" /\ wstate = "stopped" /\ queue = << >>) =>
            ENABLED ShutdownReturn)
    /\ [][/\ ( /\ ~disabled /\ wstate = "stopped" /\ last.op = "shutdown"
               /\ (cpc = "in_shutdown" \/ cpc' = "in_shutdown") ) =>
                 /\ heap' = heap /\ cur' = cur /\ file' = file
                 /\ queue' = queue /\ wstate' = wstate /\ nsub' = nsub
                 /\ cpc' = "ready" => last' = Returned("shutdown", NULL, "none")
          /\ (disabled /\ last.op = "shutdown" /\ ops' = ops + 1 /\ last'.op = "shutdown") =>
                 /\ heap' = heap /\ cur' = cur /\ file' = file
                 /\ queue' = queue /\ wstate' = wstate /\ nsub' = nsub
                 /\ cpc' = "ready" /\ last'.err = "none"]_vars

\* a second shutdown() in a row is under way on a tracker whose ledger has
\* records and is on disk
C15_Witness ==
    /\ ~disabled
    /\ cpc = "in_shutdown"
    /\ wstate = "stopped"
    /\ last.op = "shutdown"
    /\ queue = << >>
    /\ Len(Files) > 0
    /\ file = dumps(heap[cur])

-----------------------------------------------------------------------------
(* Progress of the persistence jobs *)

\* C16: no call removes or skips a pending job: the queue changes only by a
\* job appended at its end or by the worker taking the job at its front; and
\* while the worker thread is scheduled fairly, every job submitted while the
\* worker runs is eventually executed.
C16_NoCancellation ==
    /\ [][\/ queue' = queue
          \/ /\ Len(queue') = Len(queue) + 1
             /\ SubSeq(queue', 1, Len(queue)) = queue
             /\ queue'[Len(queue')].ticket = nsub + 1
          \/ /\ queue # << >>
             /\ queue' = Tail(queue)
             /\ wjob'.ticket = Head(queue).ticket]_vars
    /\ \A t \in 1..(MaxOps + 1) :
          (nsub >= t /\ wstate \in {"idle", "busy", "writing"}) ~> (ndone >= t)

\* recreate() was the last call, made on a tracker that had submitted two jobs
\* or more, and all of them have been executed
C16_Witness ==
    /\ ~disabled
    /\ cpc = "ready"
    /\ last.op = "recreate"
    /\ wstate = "idle"
    /\ nsub >= 2
    /\ ndone = nsub

====
